---- MODULE Spec2Model ----
(***************************************************************************)
(* A model of lab2/run.py: a crawler that, for every (year, month) unit,   *)
(* walks the paginated vulnerability listing of cvedetails.com, issues one *)
(* detail request per entry to resolve its category, accumulates the       *)
(* records of the unit and writes them to storage/CVE_{year}_{month}.csv.  *)
(* Units run on a thread pool of five workers.                             *)
(*                                                                         *)
(* Text is a sequence of one-character strings, so that str.strip() is     *)
(* computed rather than assumed.  An optional element (the result of a     *)
(* BeautifulSoup find) is a sequence of length 0 (None) or 1 (the text of  *)
(* the element found).                                                     *)
(***************************************************************************)
EXTENDS Integers, Sequences, FiniteSets, TLC

\* ------------------------------------------------------------------ bounds

\* Most listing pages that hold data, per unit, in the catalogues enumerated.
MaxPages == 2

\* Most entries on one listing page in the catalogues enumerated.
MaxEntries == 2

\* Units submitted to the pool in the specification of the pool (SpecPool).
NumUnits == 6

\* ------------------------------------------------------- program constants

BASE_URL == "https://www.cvedetails.com"

month_mapping ==
    [m \in {"January", "February", "March", "April", "May", "June", "July",
            "August", "September", "October", "November", "December"} |->
        CASE m = "January" -> "01" [] m = "February" -> "02"
          [] m = "March" -> "03" [] m = "April" -> "04"
          [] m = "May" -> "05" [] m = "June" -> "06"
          [] m = "July" -> "07" [] m = "August" -> "08"
          [] m = "September" -> "09" [] m = "October" -> "10"
          [] m = "November" -> "11" [] m = "December" -> "12"]

\* The years of the configuration: range(2015, 2026).
FirstYear == 2015

LastYear == 2025

\* The years without the last one.
years_but_last == [i \in 1..(LastYear - FirstYear) |-> FirstYear + i - 1]

years == [i \in 1..(LastYear - FirstYear + 1) |-> FirstYear + i - 1]

\* list(month_mapping.keys()): the months in insertion order.
months ==
    <<"January", "February", "March", "April", "May", "June", "July",
      "August", "September", "October", "November", "December">>

\* ThreadPoolExecutor(max_workers=5).
max_workers == 5

\* The sentinel category.
NA == <<"N", "/", "A">>

\* The keys of a record's dict, in insertion order: the CSV header.
FieldNames ==
    <<"CVE ID", "CVE_type", "Description", "Max CVSS", "EPSS Score",
      "Published", "Updated">>

\* ------------------------------------------------------------------- text

\* str.isspace() of a character, which is what str.strip() removes: the
\* ASCII whitespace (space, \t, \n, \r, \f, U+000B), the separators U+001C
\* to U+001F, and U+0085, U+00A0 and U+1680.  (Python also counts U+2000 to
\* U+200A, U+2028, U+2029, U+202F, U+205F and U+3000, which a string of this
\* language cannot hold.)
IsSpace(c) ==
    c \in {" ", "\t", "\n", "\r", "\f", "", "", "", "", "", "", " ", " "}

RECURSIVE LStrip(_)
LStrip(s) ==
    IF s = <<>> THEN <<>>
    ELSE IF IsSpace(Head(s)) THEN LStrip(Tail(s)) ELSE s

RECURSIVE RStrip(_)
RStrip(s) ==
    IF s = <<>> THEN <<>>
    ELSE IF IsSpace(s[Len(s)]) THEN RStrip(SubSeq(s, 1, Len(s) - 1)) ELSE s

\* str.strip(): leading and trailing whitespace removed.
Strip(s) == RStrip(LStrip(s))

\* --------------------------------------------------------- the upstream

Digit(n) == <<"0", "1", "2", "3", "4", "5", "6", "7", "8", "9">>[n + 1]

\* The sub-elements of a listing entry that process_single_page reads.
SubFields ==
    {"cveId", "a", "summary", "maxCvssBaseScore", "epssScore", "publishDate",
     "updateDate"}

\* The text of sub-element f of the i-th entry of page p, different for
\* every (f, p, i), with a space inside.
Text(f, p, i) ==
    LET tag == CASE f = "cveId" -> "C" [] f = "a" -> "/"
                 [] f = "summary" -> "s" [] f = "maxCvssBaseScore" -> "m"
                 [] f = "epssScore" -> "e" [] f = "publishDate" -> "p"
                 [] f = "updateDate" -> "u"
    IN  <<tag, Digit(p), " ", Digit(i)>>

\* The same as the page holds it: the href of the link as it is, the text
\* of an element padded with whitespace.
RawText(f, p, i) ==
    IF f = "a" THEN Text(f, p, i) ELSE <<" ", "\t">> \o Text(f, p, i) \o <<"\n">>

\* The category label on the detail page of entry (p, i), if it has one.
LabelText(p, i) == <<"X", Digit(p), " ", Digit(i)>>

\* The detail page behind the i-th entry of page p: with a category label,
\* with the container but no label, or without the container.
DetailKind(p, i) == <<"label", "nospan", "nodiv", "label">>[((2 * p + i) % 4) + 1]

DetailPage(p, i) ==
    LET k == DetailKind(p, i)
    IN  [div  |-> k # "nodiv",
         span |-> IF k = "label"
                  THEN <<(<<"\n", " ">> \o LabelText(p, i) \o <<" ">>)>>
                  ELSE <<>>]

\* The i-th entry of page p; sub-element `missing` (if any) is absent.
MkEntry(p, i, missing) ==
    [f \in SubFields |->
        IF f = missing THEN <<>> ELSE <<RawText(f, p, i)>>]
    @@ ("detail" :> DetailPage(p, i))

\* A listing page: its entries, and whether it carries a link "Next".
MkPage(p, n, next, di, missing) ==
    [entries |-> [i \in 1..n |-> MkEntry(p, i, IF i = di THEN missing ELSE "none")],
     next    |-> next]

\* A unit's catalogue: its listing pages 1..P, each with at least one entry;
\* every page after P holds no entry.  sizes and flags are sequences of length
\* P; the entry (dp, di), if the catalogue has one, lacks sub-element missing.
MkSite(sizes, flags, dp, di, missing) ==
    [p \in 1..Len(sizes) |->
        MkPage(p, sizes[p], flags[p], IF p = dp THEN di ELSE 0, missing)]

Seqs(S, n) == [1..n -> S]

\* The well-formed catalogues: every shape within the bounds.
CleanSites ==
    UNION {{MkSite(sizes, flags, 0, 0, "none") :
                sizes \in Seqs(1..MaxEntries, P), flags \in Seqs(BOOLEAN, P)} :
           P \in 0..MaxPages}

\* The catalogues with one malformed entry: full pages, all but the last
\* linking to a next one, and one entry lacking one sub-element.
FullSizes == [p \in 1..MaxPages |-> MaxEntries]

FullFlags == [p \in 1..MaxPages |-> p < MaxPages]

MalformedSites ==
    {MkSite(FullSizes, FullFlags, dp, di, f) :
        dp \in 1..MaxPages, di \in 1..MaxEntries, f \in SubFields}

Sites == CleanSites \cup MalformedSites

\* The catalogue of the unit of the specification's example: pages [A, B]
\* and [C], the first linking to the second.
ScenarioSite == MkSite(<<2, 1>>, <<TRUE, FALSE>>, 0, 0, "none")

\* A page that holds no entry (every page after the last one with data).
EmptyPage == [entries |-> <<>>, next |-> FALSE]

PageAt(s, n) == IF n \in 1..Len(s) THEN s[n] ELSE EmptyPage

\* What requests.get can give: an exception, or a response with a status and
\* a body.
Response(exc, status, body) == [exc |-> exc, status |-> status, body |-> body]

\* The outcomes of a request for `body`: served, refused with a status other
\* than 200, or failed below HTTP.
Outcomes(body) ==
    {Response(FALSE, 200, body), Response(FALSE, 503, body),
     Response(TRUE, 0, body)}

Served(r) == ~r.exc /\ r.status = 200

\* ------------------------------------------------- the program's functions

RECURSIVE ToStr(_)
\* str(n) of a natural number: its decimal digits.
ToStr(n) == IF n < 10 THEN <<Digit(n)>> ELSE Append(ToStr(n \div 10), Digit(n % 10))

\* The URL of listing page n of unit u (the f-string of process_single_page).
ListingUrl(u, n) ==
    <<BASE_URL, "/vulnerability-list/year-">> \o ToStr(u[1]) \o
    <<"/month-", month_mapping[u[2]], "/", u[2], ".html?page=">> \o ToStr(n)

\* cve_link: BASE_URL + entry.find("a")["href"].
DetailUrl(e) == <<BASE_URL>> \o e.a[1]

\* A file name without the year: one file per month.
FileNameOfMonth(u) == <<"storage", "/", "CVE_", u[2], ".csv">>

\* A file name without the month: one file per year.
FileNameOfYear(u) == <<"storage", "/", "CVE_">> \o ToStr(u[1]) \o <<".csv">>

\* os.path.join("storage", f"CVE_{year}_{month}.csv").
FileName(u) == <<"storage", "/", "CVE_">> \o ToStr(u[1]) \o <<"_", u[2], ".csv">>

\* How a call ends: it returns a value, or an exception leaves it.
Returns(v) == [raised |-> FALSE, value |-> v]

Raises == [raised |-> TRUE, value |-> <<>>]

\* get_cve_type without its except clause: the exception of requests.get and
\* the AttributeError of a missing container leave it.
get_cve_type_uncaught(r) ==
    IF r.exc THEN Raises
    ELSE IF r.status = 200
         THEN IF ~r.body.div THEN Raises
              ELSE IF r.body.span # <<>> THEN Returns(Strip(r.body.span[1]))
                   ELSE Returns(NA)
         ELSE Returns(NA)

\* get_cve_type on what requests.get gave: the stripped text of the label,
\* or "N/A" when the label is missing or the status is not 200.  An
\* exception of requests.get, and the AttributeError of div.find when the
\* container is missing (div is None), are caught by the except clause, after
\* which "N/A" is returned too.
get_cve_type(r) ==
    IF r.exc THEN Returns(NA)
    ELSE IF r.status = 200
         THEN IF ~r.body.div THEN Returns(NA)
              ELSE IF r.body.span # <<>> THEN Returns(Strip(r.body.span[1]))
                   ELSE Returns(NA)
         ELSE Returns(NA)

\* Lines 67-68 read the id and the link, before the detail request: whether
\* neither raises.
HeadFound(e) == e.cveId # <<>> /\ e.a # <<>>

\* Lines 70-74 read the five other sub-elements, after the detail request:
\* whether none raises.
RestFound(e) ==
    /\ e.summary # <<>>
    /\ e.maxCvssBaseScore # <<>>
    /\ e.epssScore # <<>>
    /\ e.publishDate # <<>>
    /\ e.updateDate # <<>>

\* The dict appended to cve_data for entry e, with category cve_type.
MkRecord(e, cve_type) ==
    ("CVE ID" :> Strip(e.cveId[1])) @@
    ("CVE_type" :> cve_type) @@
    ("Description" :> Strip(e.summary[1])) @@
    ("Max CVSS" :> Strip(e.maxCvssBaseScore[1])) @@
    ("EPSS Score" :> Strip(e.epssScore[1])) @@
    ("Published" :> Strip(e.publishDate[1])) @@
    ("Updated" :> Strip(e.updateDate[1]))

\* A file of storage/, as csv reads it: absent, or the names of its header
\* line (if it holds the whole line), its whole rows, and whether it ends
\* in a piece of a line (a header or a row cut anywhere before its end).
NoFile == [exists |-> FALSE, header |-> <<>>, rows |-> <<>>, torn |-> FALSE]

\* What csv.DictWriter leaves in a file opened with mode "w": the keys of the
\* first record as the header, then one row per record.
CsvFile(recs) ==
    [exists |-> TRUE, header |-> FieldNames, rows |-> recs, torn |-> FALSE]

\* A file left in storage/ by an earlier run.
OldFile ==
    CsvFile(<<MkRecord(MkEntry(9, 9, "none"), NA)>>)

\* ------------------------------------------------------------------ state

VARIABLES
    site,           \* unit -> its catalogue upstream (the listing pages)
    flaky,          \* the units whose requests the upstream can fail to serve
    frail,          \* whether os.makedirs, open and the writes to disk can fail
    store,          \* file name -> the file in storage/
    todo,           \* the units the main thread has still to submit
    queue,          \* the pool's work queue: submitted, not yet started
    pc,             \* unit -> where its task is
    page_number,    \* unit -> page_number of fetch_and_save_cve
    records,        \* unit -> records of fetch_and_save_cve
    cve_data,       \* unit -> cve_data of process_single_page
    idx,            \* unit -> the entry the loop of process_single_page is at
    has_next_page,  \* unit -> has_next_page of fetch_and_save_cve
    log,            \* unit -> its requests and delays so far, with outcomes
    prior,          \* file name -> the file in storage/ when the run began
    invoked,        \* unit -> how many times a worker thread has called its task
    collected,      \* the futures the loop over as_completed has been through
    errors,         \* the units of the lines "Error processing ..." printed
    main            \* where the main thread is

vars ==
    <<site, flaky, frail, store, todo, queue, pc, page_number, records, cve_data, idx,
      has_next_page, log, prior, invoked, collected, errors, main>>

Units == DOMAIN site

\* The tasks a worker thread has: taken from the queue, or running.
Active ==
    {u \in Units :
        pc[u] \in {"taken", "fetch", "listing", "entry", "enrich", "sleep", "save",
                   "write", "written"}}

\* The tasks waiting for a response to a request.
InFlight == {u \in Units : pc[u] \in {"listing", "enrich"}}

Event(op, page, i, out) == [op |-> op, page |-> page, idx |-> i, out |-> out]

\* What a request of unit u for `body` can give.
Answers(u, body) ==
    IF u \in flaky THEN Outcomes(body) ELSE {Response(FALSE, 200, body)}

\* The log with the outcome of its last (pending) request filled in.
Answered(l, r) ==
    [l EXCEPT ![Len(l)].out = IF Served(r) THEN "ok" ELSE "fail"]

Range(s) == {s[i] : i \in DOMAIN s}

\* The state when the main thread has built the pool and is about to submit
\* `jobs`; sites gives each unit's catalogue, faulty the units whose requests
\* can fail, failing whether the disk can, and files the content of storage/.
InitWith(jobs, sites, faulty, failing, files) ==
    /\ site = sites
    /\ flaky = faulty
    /\ frail = failing
    /\ store = files
    /\ prior = files
    /\ todo = jobs
    /\ queue = <<>>
    /\ pc = [u \in Range(jobs) |-> "new"]
    /\ page_number = [u \in Range(jobs) |-> 0]
    /\ records = [u \in Range(jobs) |-> <<>>]
    /\ cve_data = [u \in Range(jobs) |-> <<>>]
    /\ idx = [u \in Range(jobs) |-> 0]
    /\ has_next_page = [u \in Range(jobs) |-> FALSE]
    /\ log = [u \in Range(jobs) |-> <<>>]
    /\ invoked = [u \in Range(jobs) |-> 0]
    /\ collected = {}
    /\ errors = <<>>
    /\ main = "running"

\* What the steps of a task leave alone: the catalogue, the file of the
\* earlier run and what the main thread keeps.
MainVars == <<site, flaky, frail, prior, collected, errors, main>>

\* ---------------------------------------------------------------- actions

\* executor.submit(fetch_and_save_cve, year, month), for the next unit.
Submit ==
    /\ todo # <<>>
    /\ queue' = Append(queue, Head(todo))
    /\ todo' = Tail(todo)
    /\ pc' = [pc EXCEPT ![Head(todo)] = "queued"]
    /\ UNCHANGED <<MainVars, invoked, store, page_number, records, cve_data, idx,
                   has_next_page, log>>

\* A pool that starts a task while max_workers are running.
CanStartOneMore == Cardinality(Active) <= max_workers

\* Whether the pool has a thread for one more task: fewer than max_workers
\* are running.
CanStart == Cardinality(Active) < max_workers

\* A worker thread takes the next task from the queue.
WorkerTake(u) ==
    /\ queue # <<>>
    /\ u = Head(queue)
    /\ CanStart
    /\ queue' = Tail(queue)
    /\ pc' = [pc EXCEPT ![u] = "taken"]
    /\ UNCHANGED <<MainVars, invoked, store, todo, page_number, records, cve_data,
                   idx, has_next_page, log>>

\* The thread that has taken the task calls it: fetch_and_save_cve begins.
\* Threads that took their tasks later may call theirs first.
WorkerStart(u) ==
    /\ pc[u] = "taken"
    /\ pc' = [pc EXCEPT ![u] = "fetch"]
    /\ page_number' = [page_number EXCEPT ![u] = 1]
    /\ records' = [records EXCEPT ![u] = <<>>]
    /\ invoked' = [invoked EXCEPT ![u] = @ + 1]
    /\ UNCHANGED <<MainVars, store, todo, queue, cve_data, idx, has_next_page, log>>

\* process_single_page issues the request for the listing page.
ListingRequest(u) ==
    /\ pc[u] = "fetch"
    /\ pc' = [pc EXCEPT ![u] = "listing"]
    /\ log' = [log EXCEPT ![u] = Append(@, Event("listing", page_number[u], 0, "pending"))]
    /\ UNCHANGED <<MainVars, invoked, store, todo, queue, page_number, records,
                   cve_data, idx, has_next_page>>

\* process_single_page without the check of the status.
HasEntriesAnyStatus(r) == ~r.exc /\ r.body.entries # <<>>

\* Whether process_single_page goes on to the entries of the page received:
\* not when the request raised, the status is not 200 or no entry is found.
HasEntries(r) == Served(r) /\ r.body.entries # <<>>

\* requests.get returns or raises.  With entries to read, the loop over them
\* begins; otherwise process_single_page returns ([], False), which line 102
\* assigns to single_record and has_next_page, and the page loop of
\* fetch_and_save_cve breaks.
ListingResponse(u) ==
    /\ pc[u] = "listing"
    /\ \E r \in Answers(u, PageAt(site[u], page_number[u])) :
        /\ log' = [log EXCEPT ![u] = Answered(@, r)]
        /\ IF HasEntries(r)
           THEN /\ pc' = [pc EXCEPT ![u] = "entry"]
                /\ cve_data' = [cve_data EXCEPT ![u] = <<>>]
                /\ idx' = [idx EXCEPT ![u] = 1]
                /\ UNCHANGED has_next_page
           ELSE /\ pc' = [pc EXCEPT ![u] = "save"]
                /\ has_next_page' = [has_next_page EXCEPT ![u] = FALSE]
                /\ UNCHANGED <<cve_data, idx>>
    /\ UNCHANGED <<MainVars, invoked, store, todo, queue, page_number, records>>

\* The entry the loop of process_single_page is at.
Entry(u) == site[u][page_number[u]].entries[idx[u]]

\* The loop reads the id and the link of the entry and calls get_cve_type,
\* which issues the detail request.  A missing id or link raises: the except
\* clause returns ([], False), has_next_page is False and the page loop
\* breaks.
EntryBegin(u) ==
    /\ pc[u] = "entry"
    /\ IF HeadFound(Entry(u))
       THEN /\ pc' = [pc EXCEPT ![u] = "enrich"]
            /\ log' = [log EXCEPT ![u] = Append(@, Event("enrich", page_number[u], idx[u], "pending"))]
            /\ UNCHANGED <<cve_data, has_next_page>>
       ELSE /\ pc' = [pc EXCEPT ![u] = "save"]
            /\ cve_data' = [cve_data EXCEPT ![u] = <<>>]
            /\ has_next_page' = [has_next_page EXCEPT ![u] = FALSE]
            /\ UNCHANGED log
    /\ UNCHANGED <<MainVars, invoked, store, todo, queue, page_number, records, idx>>

\* A page loop that skips a page.
NextPageSkip(n) == n + 2

\* A page loop that does not advance.
NextPageSame(n) == n

\* page_number += 1.
NextPage(n) == n + 1

\* The records of a page put before those of the earlier pages.
ExtendFront(recs, data) == data \o recs

\* records.extend(single_record).
Extend(recs, data) == recs \o data

\* An entry loop that stops after the first entry of a page.
MoreEntriesNever(i, n) == FALSE

\* Whether the loop over the entries of a page has another entry to read
\* after the i-th of n.
MoreEntries(i, n) == i < n

\* A page loop without the delay.
PaceNever(l, k) == l

\* time.sleep(2), after the records of page k are put in records.
Pace(l, k) == Append(l, Event("sleep", k, 0, "ok"))

\* The detail request returns or raises; get_cve_type gives the category and
\* the loop reads the other sub-elements.  A missing one raises: the except
\* clause returns ([], False) and the page loop breaks.  Otherwise the record
\* is appended; after the last entry process_single_page returns (cve_data,
\* has_next_page), and fetch_and_save_cve extends records, increments
\* page_number and sleeps.
EnrichResponse(u) ==
    /\ pc[u] = "enrich"
    /\ \E r \in Answers(u, Entry(u).detail) :
        LET page == site[u][page_number[u]]
            t    == get_cve_type(r)
            data == Append(cve_data[u], MkRecord(Entry(u), t.value))
        IN  IF t.raised \/ ~RestFound(Entry(u))
            THEN /\ pc' = [pc EXCEPT ![u] = "save"]
                 /\ cve_data' = [cve_data EXCEPT ![u] = <<>>]
                 /\ has_next_page' = [has_next_page EXCEPT ![u] = FALSE]
                 /\ log' = [log EXCEPT ![u] = Answered(@, r)]
                 /\ UNCHANGED <<idx, records, page_number>>
            ELSE IF MoreEntries(idx[u], Len(page.entries))
            THEN /\ pc' = [pc EXCEPT ![u] = "entry"]
                 /\ cve_data' = [cve_data EXCEPT ![u] = data]
                 /\ idx' = [idx EXCEPT ![u] = @ + 1]
                 /\ log' = [log EXCEPT ![u] = Answered(@, r)]
                 /\ UNCHANGED <<records, page_number, has_next_page>>
            ELSE /\ pc' = [pc EXCEPT ![u] = "sleep"]
                 /\ cve_data' = [cve_data EXCEPT ![u] = data]
                 /\ has_next_page' = [has_next_page EXCEPT ![u] = page.next]
                 /\ records' = [records EXCEPT ![u] = Extend(@, data)]
                 /\ page_number' = [page_number EXCEPT ![u] = NextPage(@)]
                 /\ log' = [log EXCEPT ![u] = Pace(Answered(@, r), page_number[u])]
                 /\ UNCHANGED idx
    /\ UNCHANGED <<MainVars, invoked, store, todo, queue>>

\* A page loop that does not look at has_next_page.
ContinueAlways(more) == TRUE

\* Whether the page loop goes round again after the delay: not if not
\* has_next_page.
Continue(more) == more

\* time.sleep(2) returns: the page loop breaks unless has_next_page.
SleepReturn(u) ==
    /\ pc[u] = "sleep"
    /\ pc' = [pc EXCEPT ![u] = IF Continue(has_next_page[u]) THEN "fetch" ELSE "save"]
    /\ UNCHANGED <<MainVars, invoked, store, todo, queue, page_number, records,
                   cve_data, idx, has_next_page, log>>

\* An export that does not look at records.
ExportsAlways(recs) == TRUE

\* Whether fetch_and_save_cve writes a file: if records.
Exports(recs) == recs # <<>>

\* An empty file: one opened with mode "w", with nothing written yet.
Truncated == [exists |-> TRUE, header |-> <<>>, rows |-> <<>>, torn |-> FALSE]

\* A file opened with mode "a": what it held is kept.
OpenAppend(old) == IF old.exists THEN old ELSE Truncated

\* The file after open(filename, mode="w"): what it held before is gone.
Open(old) == Truncated

\* How os.makedirs and open can end for a file that holds old: the file is
\* opened, or one of them raises and the file is as it was.
OpenOutcomes(old) ==
    {[raised |-> FALSE, file |-> Open(old)],
     [raised |-> TRUE, file |-> old]}

\* The whole lines a file holds: the header, if it is there, and the rows.
Lines(file) == IF file.header = <<>> THEN 0 ELSE 1 + Len(file.rows)

\* How far the text of a file goes: two for every whole line, and one more
\* for a piece of the next.
Position(file) == 2 * Lines(file) + (IF file.torn THEN 1 ELSE 0)

\* How far the text of the export of recs goes: the header and one line per
\* record.
WholeText(recs) == 2 * (Len(recs) + 1)

\* The file once more of the text of writeheader and writerows has reached
\* the disk, after what the file holds: up to k whole lines (the header is
\* the first, record j the line j+1) and, if part, a piece of the next.
Grown(file, recs, k, part) ==
    LET k0 == Lines(file)
    IN  [exists |-> TRUE,
         header |-> IF k >= 1 THEN FieldNames ELSE file.header,
         rows   |-> IF k > k0 /\ k >= 2
                    THEN file.rows \o SubSeq(recs, IF k0 = 0 THEN 1 ELSE k0, k - 1)
                    ELSE file.rows,
         torn   |-> part]

\* The outcomes that the disk of this run allows.
Possible(outcomes) == IF frail THEN outcomes ELSE {o \in outcomes : ~o.raised}

\* After the page loop: without records the task returns; with records the
\* directory is made and the unit's file opened, which empties it; an error
\* leaves the task and is kept in its future.
Save(u) ==
    /\ pc[u] = "save"
    /\ IF Exports(records[u])
       THEN \E o \in Possible(OpenOutcomes(store[FileName(u)])) :
                /\ store' = [store EXCEPT ![FileName(u)] = o.file]
                /\ pc' = [pc EXCEPT ![u] = IF o.raised THEN "failed" ELSE "write"]
       ELSE /\ pc' = [pc EXCEPT ![u] = "done"]
            /\ UNCHANGED store
    /\ UNCHANGED <<MainVars, invoked, todo, queue, page_number, records, cve_data,
                   idx, has_next_page, log>>

\* Inside the with block: some more of the text of the header and the
\* rows reaches the disk, by a flush of the buffer while writerows goes on or
\* at the close of the file.  How much text one write to disk carries
\* depends on the size of the buffer and of the rows, which are not
\* modelled: it is any amount, ending at a line end or inside a line.  The
\* task is still in the with block, and other threads take steps.
SaveWrite(u) ==
    /\ pc[u] = "write"
    /\ \E k \in 0..(Len(records[u]) + 1), part \in BOOLEAN :
            LET p == 2 * k + (IF part THEN 1 ELSE 0)
            IN  /\ p > Position(store[FileName(u)])
                /\ p <= WholeText(records[u])
                /\ store' = [store EXCEPT ![FileName(u)] =
                                Grown(@, records[u], k, part)]
    /\ UNCHANGED <<MainVars, invoked, todo, queue, pc, page_number, records,
                   cve_data, idx, has_next_page, log>>

\* The whole text is on disk and the with block is left.
SaveClose(u) ==
    /\ pc[u] = "write"
    /\ Position(store[FileName(u)]) = WholeText(records[u])
    /\ pc' = [pc EXCEPT ![u] = "written"]
    /\ UNCHANGED <<MainVars, invoked, store, todo, queue, page_number, records,
                   cve_data, idx, has_next_page, log>>

\* A write to disk raises (no space, a size limit, an I/O error): the file
\* is left with the text that had reached it, and the error leaves the task
\* and is kept in its future.
SaveRaise(u) ==
    /\ pc[u] = "write"
    /\ frail
    /\ Position(store[FileName(u)]) < WholeText(records[u])
    /\ pc' = [pc EXCEPT ![u] = "failed"]
    /\ UNCHANGED <<MainVars, invoked, store, todo, queue, page_number, records,
                   cve_data, idx, has_next_page, log>>

\* "Exported: ..." is printed and the task returns.
SaveReturn(u) ==
    /\ pc[u] = "written"
    /\ pc' = [pc EXCEPT ![u] = "done"]
    /\ UNCHANGED <<MainVars, invoked, store, todo, queue, page_number, records,
                   cve_data, idx, has_next_page, log>>

\* Where a task is once its page loop has ended.
AfterLoop == {"save", "write", "written", "done", "failed"}

\* The tasks that have ended: returned, or raised.
Ended == {u \in Units : pc[u] \in {"done", "failed"}}

\* A loop over as_completed without the try: what the task raised leaves it.
EscapesIfRaised(raised) == raised

\* Whether future.result() ends the loop over as_completed: never, since
\* the except clause catches what the task raised.
Escapes(raised) == FALSE

\* as_completed yields the future of a task that has ended, once every unit
\* is submitted; future.result() returns, or raises what the task raised,
\* and then the line "Error processing {year}-{month}" is printed.
Collect(u) ==
    /\ main = "running"
    /\ todo = <<>>
    /\ u \in Ended \ collected
    /\ collected' = collected \cup {u}
    /\ IF pc[u] = "failed"
       THEN IF Escapes(TRUE)
            THEN main' = "aborted" /\ UNCHANGED errors
            ELSE errors' = Append(errors, u) /\ UNCHANGED main
       ELSE UNCHANGED <<errors, main>>
    /\ UNCHANGED <<site, flaky, frail, prior, invoked, store, todo, queue, pc, page_number,
                   records, cve_data, idx, has_next_page, log>>

\* The loop over as_completed is through every future, the with block
\* leaves the pool, and "Total Time Needed" is printed.
Report ==
    /\ main = "running"
    /\ todo = <<>>
    /\ collected = Units
    /\ main' = "reported"
    /\ UNCHANGED <<site, flaky, frail, prior, invoked, collected, errors, store, todo, queue, pc,
                   page_number, records, cve_data, idx, has_next_page, log>>

Next ==
    \/ Submit
    \/ \E u \in Units : WorkerTake(u)
    \/ \E u \in Units : WorkerStart(u)
    \/ \E u \in Units : ListingRequest(u)
    \/ \E u \in Units : ListingResponse(u)
    \/ \E u \in Units : EntryBegin(u)
    \/ \E u \in Units : EnrichResponse(u)
    \/ \E u \in Units : SleepReturn(u)
    \/ \E u \in Units : Save(u)
    \/ \E u \in Units : SaveWrite(u)
    \/ \E u \in Units : SaveClose(u)
    \/ \E u \in Units : SaveRaise(u)
    \/ \E u \in Units : SaveReturn(u)
    \/ \E u \in Units : Collect(u)
    \/ Report

\* ---------------------------------------------------------- specifications

\* The unit of the specification's example.
ScenarioUnit == <<2024, "March">>

\* One unit, over every catalogue within the bounds, with or without a file
\* of an earlier run, and with either an upstream or a disk that can fail.
\* A file of an earlier run together with an upstream that can fail is
\* taken over the catalogue of the example.
Init ==
    \E s \in Sites, f \in {NoFile, OldFile}, failing \in BOOLEAN :
        /\ (f = OldFile /\ ~failing) => s = ScenarioSite
        /\ InitWith(<<ScenarioUnit>>, ScenarioUnit :> s,
                    IF failing THEN {} ELSE {ScenarioUnit}, failing,
                    FileName(ScenarioUnit) :> f)

\* Two units side by side: the unit of the example and its neighbour, each
\* over the catalogue of the example, with an upstream and a disk that can
\* fail.
PairJobs == <<ScenarioUnit, <<2024, "April">>>>

InitPair ==
    InitWith(PairJobs,
             [u \in Range(PairJobs) |-> ScenarioSite],
             Range(PairJobs), TRUE,
             [f \in {FileName(u) : u \in Range(PairJobs)} |-> NoFile])

SpecPair == InitPair /\ [][Next]_vars

\* The first n units of the cross product of years and months, in the order
\* of submission.
Jobs(n) ==
    [k \in 1..n |-> <<years[((k - 1) \div Len(months)) + 1],
                      months[((k - 1) % Len(months)) + 1]>>]

\* More units than the pool has threads, with an upstream that serves every
\* request and a disk that can fail; the first unit has one page with one
\* entry, the others have no data.
InitPool ==
    InitWith(Jobs(NumUnits),
             [u \in Range(Jobs(NumUnits)) |->
                IF u = Jobs(NumUnits)[1]
                THEN MkSite(<<1>>, <<FALSE>>, 0, 0, "none") ELSE <<>>],
             {}, TRUE,
             [f \in {FileName(u) : u \in Range(Jobs(NumUnits))} |-> NoFile])

SpecPool == InitPool /\ [][Next]_vars

\* The units of the whole run, in the order of submission: year by year,
\* and month by month within a year.
AllJobs == Jobs(Len(years) * Len(months))

Spec == Init /\ [][Next]_vars

\* The steps the threads of the program take by themselves: everything but
\* the return of requests.get, which waits for the upstream (no timeout is
\* passed to it).
ThreadStep ==
    \/ Submit
    \/ \E u \in Units : WorkerTake(u)
    \/ \E u \in Units : WorkerStart(u)
    \/ \E u \in Units : ListingRequest(u)
    \/ \E u \in Units : EntryBegin(u)
    \/ \E u \in Units : SleepReturn(u)
    \/ \E u \in Units : Save(u)
    \/ \E u \in Units : SaveWrite(u)
    \/ \E u \in Units : SaveClose(u)
    \/ \E u \in Units : SaveRaise(u)
    \/ \E u \in Units : SaveReturn(u)
    \/ \E u \in Units : Collect(u)
    \/ Report

\* The two units, with threads that are scheduled as long as one can take a
\* step, and an upstream that may leave a request without any answer.
SpecThreads == InitPair /\ [][Next]_vars /\ WF_vars(ThreadStep)

\* The same with an upstream that answers every request in the end (served,
\* refused or failed).
SpecAnswered == InitPair /\ [][Next]_vars /\ WF_vars(Next)

\* ------------------------------------------- what the catalogue should give

\* The events of a unit's log that are requests for a listing page.
Listings(u) == SelectSeq(log[u], LAMBDA e : e.op = "listing")

\* Whether the detail request for entry (p, i) of unit u was served.
EnrichOk(u, p, i) == \E j \in DOMAIN log[u] : log[u][j] = Event("enrich", p, i, "ok")

\* Whether process_single_page returned the records of page k of unit u (the
\* delay that follows is in the log).
Returned(u, k) == \E j \in DOMAIN log[u] : log[u][j] = Event("sleep", k, 0, "ok")

\* The record that entry (p, i) should give: its texts without the padding,
\* and as category the label of its detail page if the detail request was
\* served (ok) and the page has one, "N/A" otherwise.
RecordOf(p, i, ok) ==
    ("CVE ID" :> Text("cveId", p, i)) @@
    ("CVE_type" :> IF ok /\ DetailKind(p, i) = "label" THEN LabelText(p, i) ELSE NA) @@
    ("Description" :> Text("summary", p, i)) @@
    ("Max CVSS" :> Text("maxCvssBaseScore", p, i)) @@
    ("EPSS Score" :> Text("epssScore", p, i)) @@
    ("Published" :> Text("publishDate", p, i)) @@
    ("Updated" :> Text("updateDate", p, i))

\* The records of the first n entries of page p of unit u, in entry order.
EntriesOf(u, p, n) == [i \in 1..n |-> RecordOf(p, i, EnrichOk(u, p, i))]

RECURSIVE PagesOf(_, _)
\* The records of pages 1..k of unit u, in page order.
PagesOf(u, k) ==
    IF k = 0 THEN <<>>
    ELSE PagesOf(u, k - 1) \o EntriesOf(u, k, Len(site[u][k].entries))

\* The file that holds exactly rows under the header.
FileOf(rows) ==
    [exists |-> TRUE, header |-> FieldNames, rows |-> rows, torn |-> FALSE]

\* Whether an entry lacks one of its sub-elements.
Malformed(e) == \E f \in SubFields : e[f] = <<>>

WellFormed(s) == \A p \in DOMAIN s : \A i \in DOMAIN s[p].entries : ~Malformed(s[p].entries[i])

\* The last page of catalogue s that a crawl reads data from: the first one
\* without a link "Next", or the last page.
StopPage(s) ==
    IF \E p \in DOMAIN s : ~s[p].next
    THEN CHOOSE p \in DOMAIN s : ~s[p].next /\ \A q \in 1..(p - 1) : s[q].next
    ELSE Len(s)

\* Whether no request of unit u has failed.
NoFault(u) == \A j \in DOMAIN log[u] : log[u][j].out # "fail"

RECURSIVE FaultFreePages(_, _)
\* The records of pages 1..k of catalogue s when every request is served.
FaultFreePages(s, k) ==
    IF k = 0 THEN <<>>
    ELSE FaultFreePages(s, k - 1) \o
         [i \in 1..Len(s[k].entries) |-> RecordOf(k, i, TRUE)]

\* The records a crawl of catalogue s gives when every request is served.
FaultFreeRows(s) == FaultFreePages(s, StopPage(s))

\* ------------------------------------------------------------------ claims

\* C1: a unit with P pages of data makes at most P+1 requests for a listing
\* page, whatever the pages say about a next page, and once the (P+1)-th is
\* answered its page loop has exited.
C1_PageLoopBound ==
    \A u \in Units :
        /\ Len(Listings(u)) <= Len(site[u]) + 1
        /\ (Len(Listings(u)) = Len(site[u]) + 1 /\ pc[u] # "listing")
                => pc[u] \in AfterLoop

\* Every page of data links to a next one, and the unit has stopped after
\* P+1 requests.
C1_Witness ==
    \E u \in Units :
        /\ Len(site[u]) >= 2
        /\ \A p \in DOMAIN site[u] : site[u][p].next
        /\ Len(Listings(u)) = Len(site[u]) + 1
        /\ pc[u] = "done"

\* The records a crawl of unit u gives, from its own catalogue and the
\* outcomes of its own requests: the pages before the listing request that
\* failed, or up to the first page without a link "Next".
OwnRows(u) ==
    IF \E j \in DOMAIN log[u] : log[u][j].op = "listing" /\ log[u][j].out = "fail"
    THEN LET j == CHOOSE j \in DOMAIN log[u] :
                        log[u][j].op = "listing" /\ log[u][j].out = "fail"
         IN  PagesOf(u, log[u][j].page - 1)
    ELSE PagesOf(u, StopPage(site[u]))

\* C2: what a unit has written when its task ends is decided by its own
\* catalogue and the outcomes of its own requests; in particular a unit none
\* of whose own requests failed writes the records its catalogue gives in a
\* run without failures, whatever failed in the other units and however the
\* units interleave.
C2_Isolation ==
    \A u \in Units :
        (pc[u] = "done" /\ WellFormed(site[u])) =>
            /\ store[FileName(u)] =
                    IF OwnRows(u) = <<>> THEN prior[FileName(u)] ELSE FileOf(OwnRows(u))
            /\ NoFault(u) =>
                    store[FileName(u)] =
                        IF FaultFreeRows(site[u]) = <<>> THEN prior[FileName(u)]
                        ELSE FileOf(FaultFreeRows(site[u]))

\* A unit has finished without a failure and written its file, while another,
\* still running, has had a request fail.
C2_Witness ==
    \E u, v \in Units :
        /\ u # v
        /\ pc[u] = "done" /\ NoFault(u) /\ store[FileName(u)].exists
        /\ pc[v] \in {"entry", "enrich", "sleep", "fetch", "listing"}
        /\ ~NoFault(v)

\* C3: never more than five tasks are running, and never more than five
\* requests (for a listing or a detail page, over all units) are in flight.
C3_PoolBound ==
    /\ Cardinality(Active) <= 5
    /\ Cardinality(InFlight) <= 5

\* Five requests are in flight while a submitted unit waits for a thread.
C3_Witness ==
    /\ Cardinality(InFlight) = 5
    /\ queue # <<>>

\* C4: once page k has returned records and has no link to a next page, the
\* records of pages 1..k are accumulated and no page after k is requested.
C4_StopsWithoutNext ==
    \A u \in Units : \A k \in DOMAIN site[u] :
        (Returned(u, k) /\ ~site[u][k].next) =>
            /\ records[u] = PagesOf(u, k)
            /\ \A j \in DOMAIN log[u] : log[u][j].op = "listing" => log[u][j].page <= k

\* The first page has no link to a next page although the catalogue has a
\* second page, and the unit has finished.
C4_Witness ==
    \E u \in Units :
        /\ Len(site[u]) >= 2
        /\ ~site[u][1].next
        /\ Returned(u, 1)
        /\ pc[u] = "done"

\* C5: when a task ends with every listing request served, over a catalogue
\* without malformed entries, its file holds one record per entry of the
\* pages up to the first without a link to a next page, in page order and
\* entry order, each with the label of its detail page as category, or "N/A"
\* if the detail request failed or the page has no label.
C5_Output ==
    \A u \in Units :
        (/\ pc[u] = "done"
         /\ WellFormed(site[u])
         /\ \A j \in DOMAIN log[u] : log[u][j].op = "listing" => log[u][j].out = "ok")
        => LET rows == PagesOf(u, StopPage(site[u]))
           IN  /\ records[u] = rows
               /\ rows # <<>> => store[FileName(u)] = FileOf(rows)

\* The example: pages [A, B] and [C]; the detail request of A is served with
\* a label, the one of B fails, the one of C is served without a label.
C5_Witness ==
    \E u \in Units :
        /\ pc[u] = "done"
        /\ site[u] = ScenarioSite
        /\ EnrichOk(u, 1, 1) /\ ~EnrichOk(u, 1, 2) /\ EnrichOk(u, 2, 1)
        /\ Len(Listings(u)) = 2
        /\ store[FileName(u)].exists
        /\ [j \in 1..3 |-> store[FileName(u)].rows[j]["CVE_type"]]
                = <<LabelText(1, 1), NA, NA>>

\* C6: a failed request for listing page k is the last request of the unit:
\* the task goes on to the export with the records of pages 1..k-1, and
\* these are what its file holds when it ends.
C6_ListingFailure ==
    \A u \in Units : \A j \in DOMAIN log[u] :
        (log[u][j].op = "listing" /\ log[u][j].out = "fail") =>
            LET k == log[u][j].page
            IN  /\ j = Len(log[u])
                /\ pc[u] \in AfterLoop
                /\ records[u] = PagesOf(u, k - 1)
                /\ (pc[u] = "done" /\ k > 1) =>
                        store[FileName(u)] = FileOf(PagesOf(u, k - 1))

\* The request for page 2 has failed, and the file holds the first page.
C6_Witness ==
    \E u \in Units :
        /\ pc[u] = "done"
        /\ log[u] # <<>>
        /\ log[u][Len(log[u])] = Event("listing", 2, 0, "fail")
        /\ store[FileName(u)].exists
        /\ store[FileName(u)].rows # <<>>

\* C7: a unit's file is written only by the export at the end of its task,
\* and only if records is not empty; until then, and when records is empty
\* (as when the first page fails or holds no entry), the file is as it was
\* before the run.  (Nothing is said of the file while it is open for the
\* export, or after an export that raised.)
C7_ExportIffRecords ==
    \A u \in Units :
        /\ IF pc[u] \in {"written", "done"} /\ records[u] # <<>>
           THEN store[FileName(u)] = FileOf(records[u])
           ELSE pc[u] \notin {"write", "failed"} =>
                    store[FileName(u)] = prior[FileName(u)]
        /\ (pc[u] = "done" /\ ~Returned(u, 1)) => store[FileName(u)] = prior[FileName(u)]

\* A unit whose first page holds no entry has ended, and the file of an
\* earlier run is still there.
C7_Witness ==
    \E u \in Units :
        /\ pc[u] = "done"
        /\ site[u] = <<>>
        /\ log[u] = <<Event("listing", 1, 0, "ok")>>
        /\ prior[FileName(u)] = OldFile
        /\ store[FileName(u)] = OldFile

\* C8: when the detail request has failed, or the detail page lacks the
\* container or the label, and the entry has its other sub-elements, the
\* record of the entry is appended with category "N/A" and the task goes on
\* to the next entry (or, after the last, to the delay).
C8_EnrichNeverAborts ==
    [][\A u \in Units :
        (pc[u] = "enrich" /\ pc'[u] # "enrich" /\ RestFound(Entry(u))) =>
            /\ pc'[u] \in {"entry", "sleep"}
            /\ Len(cve_data'[u]) = Len(cve_data[u]) + 1
            /\ (\/ log'[u][Len(log[u])].out = "fail"
                \/ ~Entry(u).detail.div
                \/ Entry(u).detail.span = <<>>)
                   => cve_data'[u][Len(cve_data'[u])]["CVE_type"] = NA
      ]_vars

\* The detail request of the first entry has failed, the detail page of the
\* third has no label, and all three records are accumulated.
C8_Witness ==
    \E u \in Units :
        /\ site[u] = ScenarioSite
        /\ pc[u] = "sleep"
        /\ ~EnrichOk(u, 1, 1) /\ EnrichOk(u, 1, 2) /\ EnrichOk(u, 2, 1)
        /\ [j \in 1..3 |-> records[u][j]["CVE_type"]] = <<NA, LabelText(1, 2), NA>>

\* The record that entry (p, i) of unit u would give if a missing
\* sub-element were read as the empty string (and, without a link, the
\* category as "N/A").
LenientRecordOf(u, p, i) ==
    LET e == site[u][p].entries[i]
        T(f) == IF e[f] = <<>> THEN <<>> ELSE Text(f, p, i)
    IN  ("CVE ID" :> T("cveId")) @@
        ("CVE_type" :> IF e.a # <<>> /\ EnrichOk(u, p, i) /\ DetailKind(p, i) = "label"
                       THEN LabelText(p, i) ELSE NA) @@
        ("Description" :> T("summary")) @@
        ("Max CVSS" :> T("maxCvssBaseScore")) @@
        ("EPSS Score" :> T("epssScore")) @@
        ("Published" :> T("publishDate")) @@
        ("Updated" :> T("updateDate"))

\* Whether s begins with t.
StartsWith(s, t) == Len(s) >= Len(t) /\ \A j \in DOMAIN t : s[j] = t[j]

\* C9: when a served listing page has an entry that lacks a sub-element, the
\* task ends with a record for every entry of the page, the missing
\* sub-element as the empty string, and with the next page requested if the
\* page links to one.
C9_MissingFieldIsEmpty ==
    \A u \in Units : \A p \in DOMAIN site[u] :
        (/\ pc[u] = "done"
         /\ \E j \in DOMAIN log[u] : log[u][j] = Event("listing", p, 0, "ok")
         /\ \E i \in DOMAIN site[u][p].entries : Malformed(site[u][p].entries[i]))
        => /\ StartsWith(records[u],
                         PagesOf(u, p - 1) \o
                         [i \in 1..Len(site[u][p].entries) |-> LenientRecordOf(u, p, i)])
           /\ site[u][p].next =>
                \E j \in DOMAIN log[u] : log[u][j].op = "listing" /\ log[u][j].page = p + 1

\* C10: when reading entry (p, i) raises, the file of the unit holds, when
\* the task ends, the records of pages 1..p-1 and of entries 1..i-1 of page
\* p.
C10_EarlierRecordsKept ==
    \A u \in Units : \A p \in DOMAIN site[u] : \A i \in DOMAIN site[u][p].entries :
        (/\ pc[u] = "done"
         /\ \E j \in DOMAIN log[u] : log[u][j] = Event("listing", p, 0, "ok")
         /\ Malformed(site[u][p].entries[i]))
        => LET kept == PagesOf(u, p - 1) \o EntriesOf(u, p, i - 1)
           IN  kept # <<>> =>
                /\ store[FileName(u)].exists
                /\ StartsWith(store[FileName(u)].rows, kept)

\* C11: what a task raises (the error of its export) is caught in the loop
\* over as_completed and printed with the task's own (year, month), once; it
\* ends no other task and changes nothing of any other unit; the main thread
\* is never ended by it, and with every request answered every unit's task
\* ends and the total time is printed.
C11_FailureContained ==
    /\ [](/\ main # "aborted"
          /\ Len(errors) = Cardinality(Range(errors))
          /\ Range(errors) = {u \in collected : pc[u] = "failed"})
    /\ [][\A u \in Units : (pc[u] # "failed" /\ pc'[u] = "failed") =>
            \A v \in Units \ {u} :
                /\ pc'[v] = pc[v]
                /\ records'[v] = records[v]
                /\ store'[FileName(v)] = store[FileName(v)]]_vars
    /\ <>[](main = "reported" /\ Ended = Units)

\* The total time is printed after the export of one unit has raised and
\* been reported, and the other unit, still fetching when that happened in
\* some run, has written its file.
C11_Witness ==
    \E u, v \in Units :
        /\ main = "reported"
        /\ errors = <<u>>
        /\ pc[u] = "failed"
        /\ u # v
        /\ pc[v] = "done"
        /\ store[FileName(v)] = FileOf(records[v])
        /\ records[v] # <<>>

\* Whether a file holds a part of the export of recs and nothing else: no
\* header yet, or the header and the first of the records, in order.
IsPartOf(file, recs) ==
    /\ file.exists
    /\ \/ file.header = <<>> /\ file.rows = <<>>
       \/ file.header = FieldNames /\ StartsWith(recs, file.rows)

\* C12: a unit's file changes only during the export of the unit's own
\* task, after its page loop and with no request of the unit outstanding.
\* The export is gone through at most once: a task past it takes no step
\* that changes the file, and none goes back into it.  It replaces and does
\* not append: the open leaves the file empty, every write to disk adds
\* text of the accumulated records only, and when the with block is left
\* the file holds the header and exactly the accumulated records.
C12_WriteOnceAfterLoop ==
    [][\A u \in Units :
        /\ pc[u] \in {"written", "done", "failed"} =>
                /\ pc'[u] \in {"written", "done", "failed"}
                /\ store'[FileName(u)] = store[FileName(u)]
        /\ pc[u] = "write" => pc'[u] \in {"write", "written", "failed"}
        /\ store'[FileName(u)] # store[FileName(u)] =>
                /\ pc[u] \in {"save", "write"}
                /\ \A j \in DOMAIN log[u] : log[u][j].out # "pending"
                /\ records'[u] = records[u]
                /\ pc[u] = "save" => store'[FileName(u)] = Truncated
                /\ pc[u] = "write" =>
                        /\ IsPartOf(store'[FileName(u)], records[u])
                        /\ Position(store'[FileName(u)]) > Position(store[FileName(u)])
        /\ (pc[u] # "written" /\ pc'[u] = "written") =>
                store'[FileName(u)] = FileOf(records[u])
      ]_vars

\* The file of an earlier run has been replaced by the three records of the
\* two pages of the example, and its old row is gone.
C12_Witness ==
    \E u \in Units :
        /\ prior[FileName(u)] = OldFile
        /\ pc[u] = "done"
        /\ site[u] = ScenarioSite
        /\ Len(records[u]) = 3
        /\ store[FileName(u)].rows = records[u]
        /\ \A r \in Range(OldFile.rows) : r \notin Range(store[FileName(u)].rows)

\* The (year, month) pairs of the configuration.
Configured ==
    (FirstYear..LastYear) \X
    {"January", "February", "March", "April", "May", "June", "July", "August",
     "September", "October", "November", "December"}

\* The sequence of units built for submission is the cross product of the
\* years and the months, each pair once.
PartitionExact ==
    /\ Range(AllJobs) = Configured
    /\ Len(AllJobs) = Cardinality(Configured)
    /\ <<2030, "July">> \notin Range(AllJobs)

\* C13: the units built are exactly the pairs of the configuration, each
\* once; the units of the run are the first of them, those not yet taken by
\* a thread are the last of these, in order, in the queue or still to
\* submit; no task is called twice, none before it is taken, none that is
\* not configured, and when the total time is printed every task has been
\* called once.
C13_Partition ==
    /\ PartitionExact
    /\ LET n == Cardinality(Units)
           w == queue \o todo
       IN  /\ Units = Range(SubSeq(AllJobs, 1, n))
           /\ w = SubSeq(AllJobs, n - Len(w) + 1, n)
    /\ \A u \in Units :
            /\ invoked[u] = IF pc[u] \in {"new", "queued", "taken"} THEN 0 ELSE 1
            /\ invoked[u] > 0 => u \in Configured
    /\ <<2030, "July">> \notin Units
    /\ main = "reported" => \A u \in Units : invoked[u] = 1

\* Every unit has been run once, more units than the pool has threads, and
\* the total time is printed.
C13_Witness ==
    /\ main = "reported"
    /\ Cardinality(Units) > max_workers
    /\ \A u \in Units : invoked[u] = 1
    /\ Ended = Units

\* Whether a record has the seven fields, each a text.
Complete(rec) ==
    /\ DOMAIN rec = Range(FieldNames)
    /\ Cardinality(DOMAIN rec) = 7
    /\ \A f \in DOMAIN rec : DOMAIN rec[f] = 1..Len(rec[f])

\* C14: every record in cve_data and in records has the seven fields, and
\* a unit's file holds whole records only: each of its rows has the seven
\* fields and it does not end in a piece of a line.
C14_CompleteRecords ==
    \A u \in Units :
        /\ \A rec \in Range(cve_data[u]) \cup Range(records[u])
                        \cup Range(store[FileName(u)].rows) :
                Complete(rec)
        /\ ~store[FileName(u)].torn

\* C15: with threads that are scheduled fairly, and whatever the upstream
\* does, every unit's task ends and the total time is printed.
C15_NoStall == <>(main = "reported" /\ Ended = Units /\ queue = <<>>)

\* Whether an event of the log is a request.
IsRequest(e) == e.op \in {"listing", "enrich"}

\* C16: a unit has at most one request without an answer, its last; and
\* when it requests listing page k+1, the detail request of every entry of
\* page k has been issued and answered.
C16_Sequential ==
    \A u \in Units : \A j \in DOMAIN log[u] :
        /\ log[u][j].out = "pending" => j = Len(log[u])
        /\ (log[u][j].op = "listing" /\ log[u][j].page > 1) =>
                \A i \in DOMAIN site[u][log[u][j].page - 1].entries :
                    \E h \in 1..(j - 1) :
                        /\ log[u][h].op = "enrich"
                        /\ log[u][h].page = log[u][j].page - 1
                        /\ log[u][h].idx = i
                        /\ log[u][h].out # "pending"

\* Listing page 2 is requested, after the two detail requests of page 1,
\* the first of which failed.
C16_Witness ==
    \E u \in Units :
        /\ Len(site[u]) >= 2
        /\ Len(site[u][1].entries) = 2
        /\ pc[u] = "listing"
        /\ log[u] # <<>>
        /\ log[u][Len(log[u])] = Event("listing", 2, 0, "pending")
        /\ ~EnrichOk(u, 1, 1)
        /\ EnrichOk(u, 1, 2)

\* C17: the request for listing page k+1 comes right after a delay, and
\* the delay right after the answer to the detail request of the last
\* entry of page k, with which the records of page k are put in records.
C17_PacedPages ==
    \A u \in Units : \A j \in DOMAIN log[u] :
        (log[u][j].op = "listing" /\ log[u][j].page > 1) =>
            LET k == log[u][j].page - 1
            IN  /\ j > 2
                /\ log[u][j - 1] = Event("sleep", k, 0, "ok")
                /\ log[u][j - 2].op = "enrich"
                /\ log[u][j - 2].page = k
                /\ log[u][j - 2].idx = Len(site[u][k].entries)
                /\ log[u][j - 2].out # "pending"
                /\ Len(records[u]) >= Len(PagesOf(u, k))

\* Three listing pages have been requested, with a delay before the second
\* and before the third.
C17_Witness ==
    \E u \in Units :
        /\ Len(Listings(u)) = 3
        /\ Cardinality({j \in DOMAIN log[u] : log[u][j].op = "sleep"}) = 2
        /\ pc[u] = "done"

\* C18: every request of a unit but its first comes right after a delay.
C18_PacedRequests ==
    \A u \in Units : \A j \in DOMAIN log[u] :
        (IsRequest(log[u][j]) /\ j > 1) => log[u][j - 1].op = "sleep"

\* No two units of the run have the same file name.
FileNameInjective ==
    \A j, k \in DOMAIN AllJobs :
        j # k => FileName(AllJobs[j]) # FileName(AllJobs[k])

\* C19: different units have different file names, over the whole run; and
\* a unit's file changes only in a step of the export of the unit's own
\* task, which changes no other unit's file and is no step of another unit.
C19_OwnFile ==
    /\ [](FileNameInjective /\
          \A u, v \in Units : u # v => FileName(u) # FileName(v))
    /\ [][\A u \in Units :
            store'[FileName(u)] # store[FileName(u)] =>
                /\ pc[u] \in {"save", "write"}
                /\ \A v \in Units \ {u} :
                        pc'[v] = pc[v] /\ store'[FileName(v)] = store[FileName(v)]
       ]_vars

\* Two units have ended, the second after the first, and each file holds
\* the records of its own unit, which differ.
C19_Witness ==
    \E u, v \in Units :
        /\ u # v
        /\ pc[u] = "done" /\ pc[v] = "done"
        /\ records[u] # records[v]
        /\ Len(records[u]) = 3 /\ Len(records[v]) = 3
        /\ store[FileName(u)] = FileOf(records[u])
        /\ store[FileName(v)] = FileOf(records[v])

\* C20: the j-th request of a unit for a listing page is for page j.
C20_PagesInOrder ==
    \A u \in Units : \A j \in DOMAIN Listings(u) : Listings(u)[j].page = j

\* A unit has requested three listing pages, the last of them without data.
C20_Witness ==
    \E u \in Units :
        /\ [j \in DOMAIN Listings(u) |-> Listings(u)[j].page] = <<1, 2, 3>>
        /\ Len(site[u]) = 2
        /\ pc[u] = "save"

====
